---------------------------- MODULE Spec2Model ----------------------------
(***************************************************************************)
(* A model of src/server.js: the statement analyser and combiner.          *)
(*                                                                         *)
(* Text is modelled character by character.  A JavaScript string is a      *)
(* TLA+ string; the operators that look inside one work on its tuple of    *)
(* one-character strings (Chars) and give strings back (Str).  JavaScript  *)
(* null is the string Null for string-valued fields and NaNum for numbers. *)
(* A regular expression of the source is a value built with Cls, NCls,     *)
(* Cat, Alt, Rep, Bol, Eol and Wb, and Ends computes where its matches     *)
(* end.                                                                    *)
(***************************************************************************)
EXTENDS Integers, Sequences, FiniteSets, TLC

VARIABLES
    pc,                  \* position of the request handler
    req,                 \* the request: operation, statement file, other files
    tmpFiles,            \* uploaded temporary files still on disk
    unlinked,            \* temporary files fs.unlinkSync was called on
    resp,                \* the response sent (status 0: none yet)
    perPage,             \* result of extractPerPageBlocks
    reported,            \* perPage.slice(2) with parsed, filtered entries
    uploaded,            \* the candidate pool (/combine)
    merged,              \* pages of mergedPdf, in order
    mergedPageCount,     \* the handler's running page counter
    missingPlaceholders, \* the placeholder descriptors collected
    pi,                  \* index i of the page loop (0-based, as in the code)
    ei,                  \* number of entries of page i already handled
    outcomes,            \* history: the outcome of every entry handled
    faults,              \* history: the exceptions thrown so far
    nin,                 \* NumberNormalizer check: the input string
    nout,                \* NumberNormalizer check: normalize(input)
    nre,                 \* NumberNormalizer check: normalize(canonical(nout))
    pline,               \* EntryParser check: the statement line
    viaAnalyze,          \* EntryParser check: the entry /analyze's parser gives
    viaCombine           \* EntryParser check: the entry /combine's parser gives

vars == <<pc, req, tmpFiles, unlinked, resp, perPage, reported, uploaded,
          merged, mergedPageCount, missingPlaceholders, pi, ei, outcomes,
          faults, nin, nout, nre, pline, viaAnalyze, viaCombine>>

-----------------------------------------------------------------------------
(* Strings *)

Null == "<null>"

\* a sequence given as a function, with its elements evaluated
Eager(f) == SubSeq(f, 1, Len(f))

\* a table given as a function, with its values evaluated once
Memo(f) == f @@ <<>>

Chars(s) == Eager([i \in 1..Len(s) |-> SubSeq(s, i, i)])

RECURSIVE Str(_)
Str(t) == IF Len(t) = 0 THEN "" ELSE Head(t) \o Str(Tail(t))

Digit == {"0", "1", "2", "3", "4", "5", "6", "7", "8", "9"}
UpperStr == "ABCDEFGHIJKLMNOPQRSTUVWXYZÄÖÜ"
LowerStr == "abcdefghijklmnopqrstuvwxyzäöü"
Upper == {SubSeq(UpperStr, i, i) : i \in 1..Len(UpperStr)}
Lower == {SubSeq(LowerStr, i, i) : i \in 1..Len(LowerStr)} \cup {"ß"}
Letter == Upper \cup Lower
WordCh == (Digit \cup Letter \cup {"_"}) \ {"Ä", "Ö", "Ü", "ä", "ö", "ü", "ß"}
Space == {" ", "\t", "\n", "\r", "\f"}

LowerCh(c) ==
    IF c \in Upper
    THEN LET i == CHOOSE j \in 1..Len(UpperStr) : SubSeq(UpperStr, j, j) = c
         IN  SubSeq(LowerStr, i, i)
    ELSE c

UpperCh(c) ==
    IF c \in Lower /\ c # "ß"
    THEN LET i == CHOOSE j \in 1..Len(LowerStr) : SubSeq(LowerStr, j, j) = c
         IN  SubSeq(UpperStr, i, i)
    ELSE c

toLowerCase(s) == Str(Eager([i \in 1..Len(s) |-> LowerCh(SubSeq(s, i, i))]))

\* String.prototype.trim on a tuple of characters
RECURSIVE TrimLeft(_)
TrimLeft(t) == IF Len(t) > 0 /\ Head(t) \in Space THEN TrimLeft(Tail(t)) ELSE t
RECURSIVE TrimRight(_)
TrimRight(t) ==
    IF Len(t) > 0 /\ t[Len(t)] \in Space THEN TrimRight(SubSeq(t, 1, Len(t) - 1)) ELSE t
trim(t) == TrimRight(TrimLeft(t))

\* the characters of t that satisfy keep, in order
RECURSIVE Filter(_, _)
Filter(t, keep) ==
    IF Len(t) = 0 THEN <<>>
    ELSE (IF Head(t) \in keep THEN <<Head(t)>> ELSE <<>>) \o Filter(Tail(t), keep)

RECURSIVE Remove(_, _)
Remove(t, drop) ==
    IF Len(t) = 0 THEN <<>>
    ELSE (IF Head(t) \in drop THEN <<>> ELSE <<Head(t)>>) \o Remove(Tail(t), drop)

Subst(t, from, to) == Eager([i \in 1..Len(t) |-> IF t[i] = from THEN to ELSE t[i]])

Min(S) == CHOOSE x \in S : \A y \in S : x <= y
Max(S) == CHOOSE x \in S : \A y \in S : x >= y
\* the least element of a set of positive numbers, 0 for the empty set
MinOr0(S) == IF S = {} THEN 0 ELSE Min(S)
MaxOr0(S) == IF S = {} THEN 0 ELSE Max(S)
\* x || y for strings
OrElse(x, y) == IF x = Null \/ x = "" THEN y ELSE x

-----------------------------------------------------------------------------
(* Regular expressions *)

Cls(S) == [t |-> "cls", s |-> S]
NCls(S) == [t |-> "ncls", s |-> S]
Cat(a) == [t |-> "cat", a |-> a]
Alt(a) == [t |-> "alt", a |-> a]
Rep(r, lo, hi) == [t |-> "rep", r |-> r, lo |-> lo, hi |-> hi]
Star(r) == Rep(r, 0, -1)
Plus(r) == Rep(r, 1, -1)
Opt(r) == Rep(r, 0, 1)
Bol == [t |-> "bol"]
Eol == [t |-> "eol"]
Wb == [t |-> "wb"]
Lit(str) == Cat(Eager([i \in 1..Len(str) |-> Cls({SubSeq(str, i, i)})]))
\* a literal under the i flag
LitI(str) ==
    Cat(Eager([i \in 1..Len(str) |->
                 Cls({LowerCh(SubSeq(str, i, i)), UpperCh(SubSeq(str, i, i))})]))

IsWordAt(s, i) == i >= 1 /\ i <= Len(s) /\ s[i] \in WordCh

\* Ends(re, s, I): the positions at which a match of re that starts at a
\* position of I can end (a position is the index of the next character)
RECURSIVE Ends(_, _, _)
RECURSIVE CatEnds(_, _, _, _)
RECURSIVE RepEnds(_, _, _, _, _)
RECURSIVE StarEnds(_, _, _, _)

Ends(re, s, I) ==
    CASE re.t = "cls"  -> {i + 1 : i \in {j \in I : j <= Len(s) /\ s[j] \in re.s}}
      [] re.t = "ncls" -> {i + 1 : i \in {j \in I : j <= Len(s) /\ s[j] \notin re.s}}
      [] re.t = "bol"  -> I \cap {1}
      [] re.t = "eol"  -> I \cap {Len(s) + 1}
      [] re.t = "wb"   -> {i \in I : IsWordAt(s, i - 1) # IsWordAt(s, i)}
      [] re.t = "cat"  -> CatEnds(re.a, 1, s, I)
      [] re.t = "alt"  -> UNION {Ends(re.a[k], s, I) : k \in DOMAIN re.a}
      [] re.t = "rep"  -> RepEnds(re.r, re.lo, re.hi, s, I)

CatEnds(a, k, s, I) ==
    IF k > Len(a) \/ I = {} THEN I ELSE CatEnds(a, k + 1, s, Ends(a[k], s, I))

RepEnds(r, lo, hi, s, I) ==
    IF I = {} THEN {}
    ELSE IF lo > 0 THEN RepEnds(r, lo - 1, IF hi > 0 THEN hi - 1 ELSE hi, s, Ends(r, s, I))
    ELSE IF hi = 0 THEN I
    ELSE IF hi < 0 THEN StarEnds(r, s, I, I)
    ELSE I \cup RepEnds(r, 0, hi - 1, s, Ends(r, s, I))

StarEnds(r, s, acc, frontier) ==
    LET new == Ends(r, s, frontier) \ acc
    IN  IF new = {} THEN acc ELSE StarEnds(r, s, acc \cup new, new)

\* RegExp.prototype.test without the g flag
Test(re, s) == Ends(re, s, 1..(Len(s) + 1)) # {}
\* the whole of s matches re
Full(re, s) == (Len(s) + 1) \in Ends(re, s, {1})
\* the characters a match of re can begin with: n, re can match without
\* consuming a character; any, it can begin with a character outside a set
RECURSIVE Firsts(_)
RECURSIVE CatFirsts(_, _)
Firsts(re) ==
    CASE re.t = "cls"  -> [n |-> FALSE, any |-> FALSE, s |-> re.s]
      [] re.t = "ncls" -> [n |-> FALSE, any |-> TRUE, s |-> {}]
      [] re.t \in {"bol", "eol", "wb"} -> [n |-> TRUE, any |-> FALSE, s |-> {}]
      [] re.t = "cat"  -> CatFirsts(re.a, 1)
      [] re.t = "alt"  ->
            [n   |-> \E k \in DOMAIN re.a : Firsts(re.a[k]).n,
             any |-> \E k \in DOMAIN re.a : Firsts(re.a[k]).any,
             s   |-> UNION {Firsts(re.a[k]).s : k \in DOMAIN re.a}]
      [] re.t = "rep"  ->
            [n |-> re.lo = 0 \/ Firsts(re.r).n, any |-> Firsts(re.r).any, s |-> Firsts(re.r).s]
CatFirsts(a, k) ==
    IF k > Len(a) THEN [n |-> TRUE, any |-> FALSE, s |-> {}]
    ELSE LET f == Firsts(a[k])
         IN  IF ~f.n THEN f
             ELSE LET g == CatFirsts(a, k + 1)
                  IN  [n |-> g.n, any |-> f.any \/ g.any, s |-> f.s \cup g.s]

\* the start of the leftmost match at or after from (0: none); f is Firsts(re)
StartsWith(re, s, from, f) ==
    {i \in from..(Len(s) + 1) :
        /\ f.n \/ (i <= Len(s) /\ (f.any \/ s[i] \in f.s))
        /\ Ends(re, s, {i}) # {}}
FirstStart(re, s, from) == MinOr0(StartsWith(re, s, from, Firsts(re)))

-----------------------------------------------------------------------------
(* NumberNormalizer: parseGermanNumberToFloat *)

\* a number: sign, integer digits without leading zeros ("0" for none),
\* fraction digits without trailing zeros; NaNum is NaN (the function then returns null)
NaNum == [neg |-> FALSE, ip |-> "NaN", fp |-> ""]

RECURSIVE StripLeadingZeros(_)
StripLeadingZeros(t) ==
    IF Len(t) > 0 /\ Head(t) = "0" THEN StripLeadingZeros(Tail(t)) ELSE t
RECURSIVE StripTrailingZeros(_)
StripTrailingZeros(t) ==
    IF Len(t) > 0 /\ t[Len(t)] = "0"
    THEN StripTrailingZeros(SubSeq(t, 1, Len(t) - 1)) ELSE t

\* the longest prefix of t made of characters of S
RECURSIVE Run(_, _)
Run(t, S) == IF Len(t) > 0 /\ Head(t) \in S THEN <<Head(t)>> \o Run(Tail(t), S) ELSE <<>>

\* parseFloat on a string without exponent: the longest prefix
\* [+-]? digits* ( . digits* )? that holds a digit
Unsigned(t) == IF Len(t) > 0 /\ Head(t) \in {"+", "-"} THEN Tail(t) ELSE t
FracDigits(rest) == IF Len(rest) > 0 /\ Head(rest) = "." THEN Run(Tail(rest), Digit) ELSE <<>>
OrZero(ip) == IF Len(ip) = 0 THEN <<"0">> ELSE ip
Number(neg, ip, fp) ==
    [neg |-> neg /\ (ip # <<"0">> \/ Len(fp) > 0), ip |-> Str(ip), fp |-> Str(fp)]
NumberOf(neg, ipart, fpart) ==
    IF Len(ipart) = 0 /\ Len(fpart) = 0 THEN NaNum
    ELSE Number(neg, OrZero(StripLeadingZeros(ipart)), StripTrailingZeros(fpart))
ParseDigits(neg, body, ipart) ==
    NumberOf(neg, ipart, FracDigits(SubSeq(body, Len(ipart) + 1, Len(body))))
ParseUnsigned(neg, body) == ParseDigits(neg, body, Run(body, Digit))
parseFloat(t) == ParseUnsigned(Len(t) > 0 /\ Head(t) = "-", Unsigned(t))

Has(t, c) == \E i \in DOMAIN t : t[i] = c

\* the mutant: a bare '.' is kept as the decimal separator
parseGermanNumberToFloat_DotDecimal(s) ==
    IF s = Null \/ s = "" THEN NaNum
    ELSE parseFloat(Filter(Subst(IF Has(Remove(Chars(s), Space), ",")
                                 THEN Remove(Remove(Chars(s), Space), {"."})
                                 ELSE Remove(Chars(s), Space), ",", "."),
                           Digit \cup {".", "-", "+"}))

\* the three branches on the separators t has
Separators(t) ==
    IF Has(t, ".") /\ Has(t, ",") THEN Subst(Remove(t, {"."}), ",", ".")
    ELSE IF Has(t, ",") /\ ~Has(t, ".") THEN Subst(t, ",", ".")
    ELSE Remove(t, {"."})

parseGermanNumberToFloat(s) ==
    IF s = Null \/ s = "" THEN NaNum
    ELSE parseFloat(Filter(Separators(Remove(Chars(s), Space)), Digit \cup {".", "-", "+"}))

\* String(n) of a number with at most 15 significant digits
NumberToString(n) ==
    (IF n.neg THEN "-" ELSE "") \o n.ip
        \o (IF n.fp = "" THEN "" ELSE "." \o n.fp)


-----------------------------------------------------------------------------
(* EntryParser: the two parseLineToEntry functions *)

AsciiLetter == WordCh \ (Digit \cup {"_"})
SignCls == Cls({"+", "-"})
SepCls == Cls({".", ","})
NonWord == NCls(WordCh)

\* [0-9]{1,3}(?:[\.,][0-9]{3})*(?:[\.,][0-9]{2})
AmountRe ==
    Cat(<<Rep(Cls(Digit), 1, 3),
          Star(Cat(<<SepCls, Rep(Cls(Digit), 3, 3)>>)),
          Cat(<<SepCls, Rep(Cls(Digit), 2, 2)>>)>>)

\* /\b(\d{1,4}[\.\-/]\d{1,2}[\.\-/]\d{1,4})\b/g
dateRegex ==
    Cat(<<Wb, Rep(Cls(Digit), 1, 4), Cls({".", "-", "/"}), Rep(Cls(Digit), 1, 2),
          Cls({".", "-", "/"}), Rep(Cls(Digit), 1, 4), Wb>>)

\* /\b(\d{2}\.\d{2}\.\d{4})\b/g
dateRegex_combine ==
    Cat(<<Wb, Rep(Cls(Digit), 2, 2), Cls({"."}), Rep(Cls(Digit), 2, 2),
          Cls({"."}), Rep(Cls(Digit), 4, 4), Wb>>)

\* the tail of trailingSignRegex after the amount: \s*([+-])\s*$
trailingTail == Cat(<<Star(Cls(Space)), SignCls, Star(Cls(Space)), Eol>>)
trailingSignRegex == Cat(<<AmountRe, trailingTail>>)

\* [€EUR] under the i flag
EurCls == {"€", "E", "U", "R", "e", "u", "r"}

\* the tail of altRegex after the amount: \s*[€EUR]*$ (/analyze)
altTail == Cat(<<Star(Cls(Space)), Star(Cls(EurCls)), Eol>>)
\* the tail of altRegex after the amount: [\s€EUR]*$ (/combine)
altTail_combine == Cat(<<Star(Cls(Space \cup EurCls)), Eol>>)

altRegexWith(tail) == Cat(<<Opt(SignCls), Star(Cls(Space)), AmountRe, tail>>)

\* [0-9]+(?:[\.,][0-9]+) and the \b that ends fxRegex
RateRe == Cat(<<Plus(Cls(Digit)), SepCls, Plus(Cls(Digit)), Wb>>)
fxTailSigned == Cat(<<Star(Cls(Space)), SignCls, Plus(NonWord), RateRe>>)
fxTailUnsigned == Cat(<<Plus(NonWord), RateRe>>)
\* /\b([A-Z]{3})\W*(amount)(?:\s*([-+]))?\W+([0-9]+(?:[\.,][0-9]+))\b/i
fxRegex ==
    Cat(<<Wb, Rep(Cls(AsciiLetter), 3, 3), Star(NonWord), AmountRe,
          Alt(<<fxTailSigned, fxTailUnsigned>>)>>)

\* the matches of a g-flagged regex, by repeated exec: st is the start of the
\* next match, e its end
RECURSIVE ExecAll(_, _, _)
RECURSIVE ExecAt(_, _, _)
RECURSIVE ExecTo(_, _, _, _)
ExecTo(re, s, st, e) == <<Str(SubSeq(s, st, e - 1))>> \o ExecAll(re, s, e)
ExecAt(re, s, st) == IF st = 0 THEN <<>> ELSE ExecTo(re, s, st, Max(Ends(re, s, {st})))
ExecAll(re, s, from) == ExecAt(re, s, FirstStart(re, s, from))

\* the first index at or after i whose character is not in S
RECURSIVE SkipCls(_, _, _)
SkipCls(s, i, S) == IF i <= Len(s) /\ s[i] \in S THEN SkipCls(s, i + 1, S) ELSE i
RECURSIVE SkipNotCls(_, _, _)
SkipNotCls(s, i, S) == IF i <= Len(s) /\ s[i] \notin S THEN SkipNotCls(s, i + 1, S) ELSE i

\* the end of the amount that starts at q: the longest one after which tail
\* still matches
AmountEnd(s, q, tail) == Max({x \in Ends(AmountRe, s, {q}) : Ends(tail, s, {x}) # {}})

NoAmount == [matched |-> FALSE, amountStr |-> Null, sign |-> Null]
Amount(s, q, e, sign) == [matched |-> TRUE, amountStr |-> Str(SubSeq(s, q, e - 1)), sign |-> sign]

\* the amount and sign that trailingSignRegex captures in a match that starts
\* at st (0: no match)
TrailingAt(s, st, e) == Amount(s, st, e, s[SkipCls(s, e, Space)])
TrailingFrom(s, st) ==
    IF st = 0 THEN NoAmount ELSE TrailingAt(s, st, AmountEnd(s, st, trailingTail))
TrailingMatch(s) == TrailingFrom(s, FirstStart(trailingSignRegex, s, 1))

\* the sign and amount that altRegex captures in a match that starts at st
AltAt(s, tail, sign, q) == Amount(s, q, AmountEnd(s, q, tail), sign)
AltFrom(s, tail, st) ==
    IF st = 0 THEN NoAmount
    ELSE IF s[st] \in {"+", "-"} THEN AltAt(s, tail, s[st], SkipCls(s, st + 1, Space))
    ELSE AltAt(s, tail, Null, SkipCls(s, st, Space))
AltMatch(s, tail) == AltFrom(s, tail, FirstStart(altRegexWith(tail), s, 1))

\* what fxRegex captures in a match that starts at st: the amount (from q to
\* e) takes as many groups as still match, the sign group (at sg) is taken
\* when the rest then matches, the rate goes from r to re
fxTail == Alt(<<fxTailSigned, fxTailUnsigned>>)
FxRecord(s, st, q, e, sign, r, re) ==
    [matched |-> TRUE,
     all |-> Str(SubSeq(s, st, re - 1)),
     code |-> Str(SubSeq(s, st, st + 2)),
     amountStr |-> Str(SubSeq(s, q, e - 1)),
     sign |-> sign,
     rate |-> Str(SubSeq(s, r, re - 1))]
FxRate(s, st, q, e, sign, r) == FxRecord(s, st, q, e, sign, r, Max(Ends(RateRe, s, {r})))
FxSign(s, st, q, e, signed, sg) ==
    IF signed THEN FxRate(s, st, q, e, s[sg], SkipNotCls(s, sg + 1, WordCh))
    ELSE FxRate(s, st, q, e, Null, SkipNotCls(s, e, WordCh))
FxAmount(s, st, q, e) == FxSign(s, st, q, e, Ends(fxTailSigned, s, {e}) # {}, SkipCls(s, e, Space))
FxAt(s, st, q) == FxAmount(s, st, q, AmountEnd(s, q, fxTail))
FxFrom(s, st) ==
    IF st = 0 THEN [matched |-> FALSE, all |-> Null] ELSE FxAt(s, st, SkipNotCls(s, st + 3, WordCh))
FxMatch(s) == FxFrom(s, FirstStart(fxRegex, s, 1))

\* text.replace(sub, ''): the first occurrence of sub removed
IndexOf(t, sub) ==
    MinOr0({i \in 1..(Len(t) - Len(sub) + 1) : SubSeq(t, i, i + Len(sub) - 1) = sub})
RemoveAt(t, i, n) == IF i = 0 THEN t ELSE SubSeq(t, 1, i - 1) \o SubSeq(t, i + n, Len(t))
RemoveFirst(t, sub) == RemoveAt(t, IndexOf(t, sub), Len(sub))
\* if (x) text = text.replace(x, '')
RemoveIf(x, t) == IF x = Null \/ x = "" THEN t ELSE RemoveFirst(t, Chars(x))

\* text.replace(re, to) with the g flag, for a regex that matches no empty string
RECURSIVE ReplaceAll(_, _, _, _)
RECURSIVE ReplaceAt(_, _, _, _, _)
ReplaceAt(re, t, from, to, st) ==
    IF st = 0 \/ st > Len(t) THEN SubSeq(t, from, Len(t))
    ELSE SubSeq(t, from, st - 1) \o to \o ReplaceAll(re, t, Max(Ends(re, t, {st})), to)
ReplaceAll(re, t, from, to) == ReplaceAt(re, t, from, to, FirstStart(re, t, from))

\* /\b(EUR|€)\b/ig
eurTokenRegex == Cat(<<Wb, Alt(<<LitI("EUR"), Lit("€")>>), Wb>>)

\* .replace(/[\t\n\r]/g, ' ')
Blanked(t) == Eager([i \in 1..Len(t) |-> IF t[i] \in {"\t", "\n", "\r"} THEN " " ELSE t[i]])
\* text || null
OrNull(x) == IF x = "" THEN Null ELSE x

\* the 'Rechnungstext' of a line: dates, fx block, amount and sign removed
Rechnungstext(raw, d1, d2, fx, amountStr, sign) ==
    OrNull(Str(trim(
        ReplaceAll(Rep(Cls(Space), 2, -1),
            Blanked(ReplaceAll(eurTokenRegex,
                RemoveIf(sign, RemoveIf(amountStr, RemoveIf(fx.all,
                    RemoveIf(d2, RemoveIf(d1, Chars(raw)))))),
                1, <<>>)),
            1, <<" ">>))))

\* dates[k] || null
DateAt(dates, k) == IF Len(dates) >= k THEN dates[k] ELSE Null

MakeEntry(raw, dates, am, fx) ==
    [raw |-> raw,
     umsatzVom |-> DateAt(dates, 1),
     buchungAm |-> DateAt(dates, 2),
     amountStr |-> am.amountStr,
     sign |-> am.sign,
     amount |-> IF am.matched THEN parseGermanNumberToFloat(am.amountStr) ELSE NaNum,
     foreignCurrency |-> IF fx.matched THEN fx.code ELSE Null,
     foreignAmountStr |-> IF fx.matched THEN fx.amountStr ELSE Null,
     foreignSign |-> IF fx.matched THEN fx.sign ELSE Null,
     foreignAmount |-> IF fx.matched THEN parseGermanNumberToFloat(fx.amountStr) ELSE NaNum,
     fxRateStr |-> IF fx.matched THEN fx.rate ELSE Null,
     fxRate |-> IF fx.matched THEN parseGermanNumberToFloat(fx.rate) ELSE NaNum,
     rechnungstext |-> Rechnungstext(raw, DateAt(dates, 1), DateAt(dates, 2), fx,
                                     am.amountStr, am.sign)]

\* the trailing-sign form first, the other form when it does not match
AmountOf(s, tail, tm) == IF tm.matched THEN tm ELSE AltMatch(s, tail)

\* an entry from the line's characters s, with the date regex and the tail of
\* altRegex of the function
EntryOf(raw, s, dre, tail) ==
    MakeEntry(raw, ExecAll(dre, s, 1), AmountOf(s, tail, TrailingMatch(s)), FxMatch(s))

\* the module-level parseLineToEntry, used by /analyze
parseLineToEntry(raw) == EntryOf(raw, Chars(raw), dateRegex, altTail)

\* the parseLineToEntry nested in the /combine handler
parseLineToEntry_combine(raw) == EntryOf(raw, Chars(raw), dateRegex_combine, altTail_combine)

-----------------------------------------------------------------------------
(* PageSegmenter: extractPerPageBlocks *)

\* String.prototype.split on a regex that matches no empty string: st is the
\* start of the next match
RECURSIVE SplitRe(_, _, _)
RECURSIVE SplitAt(_, _, _, _)
SplitAt(re, t, from, st) ==
    IF st = 0 \/ st > Len(t) THEN <<SubSeq(t, from, Len(t))>>
    ELSE <<SubSeq(t, from, st - 1)>> \o SplitRe(re, t, Max(Ends(re, t, {st})))
SplitRe(re, t, from) == SplitAt(re, t, from, FirstStart(re, t, from))

\* the elements of a sequence that are not the empty tuple
RECURSIVE NonEmpty(_)
NonEmpty(q) ==
    IF Len(q) = 0 THEN <<>>
    ELSE (IF Len(Head(q)) > 0 THEN <<Head(q)>> ELSE <<>>) \o NonEmpty(Tail(q))

TrimAll(parts) == Eager([i \in 1..Len(parts) |-> trim(parts[i])])

\* x.split(re).map(p => p.trim()).filter(p => p.length > 0)
SplitTrimFilter(re, t) == NonEmpty(TrimAll(SplitRe(re, t, 1)))

\* /--\s*\d+\s+of\s+\d+\s*--/i
pageSplitRegex ==
    Cat(<<Lit("--"), Star(Cls(Space)), Plus(Cls(Digit)), Plus(Cls(Space)), LitI("of"),
          Plus(Cls(Space)), Plus(Cls(Digit)), Star(Cls(Space)), Lit("--")>>)

\* /\r?\n/
lineSplitRegex == Cat(<<Opt(Lit("\r")), Lit("\n")>>)

\* /Fremdwährung\s+Kurs\s+FW\s+Betrag\s+in\s+EUR/i
headerRegex ==
    Cat(<<LitI("Fremdwährung"), Plus(Cls(Space)), LitI("Kurs"), Plus(Cls(Space)),
          LitI("FW"), Plus(Cls(Space)), LitI("Betrag"), Plus(Cls(Space)), LitI("in"),
          Plus(Cls(Space)), LitI("EUR")>>)

\* /(?:Zwischensaldo|Aktueller Saldo)/i
footerRegex == Alt(<<LitI("Zwischensaldo"), LitI("Aktueller Saldo")>>)

\* lines.findIndex(l => re.test(l)), 1-based; 0 for -1
FindIndex(lines, re) == MinOr0({i \in 1..Len(lines) : Test(re, lines[i])})

\* [:\s\-]* and [\p{L}\p{M}0-9\s\.,\-]+ of the holder regexes
holderPrefix == Star(Cls({":", "-"} \cup Space))
holderName == Plus(Cls(Letter \cup Digit \cup Space \cup {".", ",", "-"}))

\* (Karteninhaber|Kontoinhaber)[:\s\-]*([\p{L}\p{M}0-9\s\.,\-]+) under iu:
\* capture 1, trimmed (matched FALSE: no match); the match starts at st, the
\* capture at a
HolderCapture(l, a) ==
    [matched |-> TRUE, name |-> Str(trim(SubSeq(l, a, Max(Ends(holderName, l, {a})) - 1)))]
HolderAt(word, l, st) ==
    IF st = 0 THEN [matched |-> FALSE, name |-> ""]
    ELSE HolderCapture(l, Max({x \in Ends(holderPrefix, l, {st + Len(word)}) :
                                  Ends(holderName, l, {x}) # {}}))
HolderMatch(word, l) ==
    HolderAt(word, l, FirstStart(Cat(<<LitI(word), holderPrefix, holderName>>), l, 1))

\* the loop over the first 8 lines: the first line that matches either word
RECURSIVE HolderFromFirstLines(_, _)
RECURSIVE HolderOfLine(_, _, _, _)
HolderOfLine(lines, k, m1, m2) ==
    IF m1.matched THEN m1.name
    ELSE IF m2.matched THEN m2.name
    ELSE HolderFromFirstLines(lines, k + 1)
HolderFromFirstLines(lines, k) ==
    IF k > Len(lines) \/ k > 8 THEN Null
    ELSE HolderOfLine(lines, k, HolderMatch("Karteninhaber", lines[k]),
                      HolderMatch("Kontoinhaber", lines[k]))

\* /^[\p{Lu}][\p{L}\p{M}0-9\.\- ]+$/u
nameLineRegex ==
    Cat(<<Bol, Cls(Upper), Plus(Cls(Letter \cup Digit \cup {".", "-", " "})), Eol>>)

StrAt(lines, i) == IF i = 0 THEN Null ELSE Str(lines[i])
NameLine(lines) ==
    StrAt(lines, MinOr0({i \in 1..Len(lines) :
                            Full(nameLineRegex, lines[i]) /\ Len(Filter(lines[i], Digit)) < 3}))

\* a non-negative integer in decimal
RECURSIVE IntToStr(_)
IntToStr(n) ==
    IF n < 10 THEN SubSeq("0123456789", n + 1, n + 1)
    ELSE IntToStr(n \div 10) \o SubSeq("0123456789", (n % 10) + 1, (n % 10) + 1)

\* lines.slice(headerIdx + 1, footerIdx), lines.slice(headerIdx + 1) or []
BlockLines(lines, headerIdx, footerIdx) ==
    IF headerIdx # 0 /\ footerIdx # 0 /\ footerIdx > headerIdx
    THEN SubSeq(lines, headerIdx + 1, footerIdx - 1)
    ELSE IF headerIdx # 0 THEN SubSeq(lines, headerIdx + 1, Len(lines))
    ELSE <<>>

StrAll(lines) == Eager([i \in 1..Len(lines) |-> Str(lines[i])])

\* the holder of a page: Karteninhaber / Kontoinhaber, a name-like line, or
\* Page-n-UNKNOWN
Holder(lines, pageNo) ==
    OrElse(OrElse(HolderFromFirstLines(lines, 1), NameLine(lines)),
           "Page-" \o IntToStr(pageNo) \o "-UNKNOWN")

\* the block of a page from its non-empty trimmed lines
BlockOf(lines, pageNo) ==
    [page |-> pageNo, name |-> Holder(lines, pageNo),
     lines |-> StrAll(BlockLines(lines, FindIndex(lines, headerRegex),
                                 FindIndex(lines, footerRegex)))]

\* one page of extractPerPageBlocks: pageText is rawPages[pageNo - 1]
PageBlock(pageText, pageNo) == BlockOf(SplitTrimFilter(lineSplitRegex, pageText), pageNo)

\* rawPages: the split on the page marker, else on form feeds, else the text
OrIfEmpty(q, other) == IF Len(q) = 0 THEN other ELSE q
RawPages(t) ==
    OrIfEmpty(OrIfEmpty(SplitTrimFilter(pageSplitRegex, t), SplitTrimFilter(Lit("\f"), t)), <<t>>)

Blocks(rawPages) == Eager([i \in 1..Len(rawPages) |-> PageBlock(rawPages[i], i)])

\* extractPerPageBlocks: the page blocks of the pages that carry text
extractPerPageBlocks(fullText) == Blocks(RawPages(Chars(fullText)))

-----------------------------------------------------------------------------
(* DateVariantGenerator: buildDateVariants *)

\* String.prototype.split on the characters of S
RECURSIVE SplitOn(_, _)
SplitOn(t, S) ==
    LET i == SkipNotCls(t, 1, S)
    IN  IF i > Len(t) THEN <<t>>
        ELSE <<SubSeq(t, 1, i - 1)>> \o SplitOn(SubSeq(t, i + 1, Len(t)), S)

\* p.padStart(2, '0')
padStart2(p) == IF Len(p) = 0 THEN "00" ELSE IF Len(p) = 1 THEN "0" \o p ELSE p

DigitVal(c) == CHOOSE n \in 0..9 : SubSeq("0123456789", n + 1, n + 1) = c

\* parseInt(p, 10) of a trimmed string: -1 for NaN
RECURSIVE DigitsVal(_, _)
DigitsVal(t, acc) ==
    IF Len(t) = 0 THEN acc ELSE DigitsVal(Tail(t), acc * 10 + DigitVal(Head(t)))
parseInt(p) ==
    LET t == Chars(p)
        signed == Len(t) > 0 /\ Head(t) \in {"+", "-"}
        ds == Run(IF signed THEN Tail(t) ELSE t, Digit)
    IN  IF Len(ds) = 0 THEN -1
        ELSE IF signed /\ Head(t) = "-" THEN 0 - DigitsVal(ds, 0) ELSE DigitsVal(ds, 0)

monthNames == <<"Jan", "Feb", "Mar", "Apr", "May", "Jun", "Jul", "Aug", "Sep", "Oct", "Nov", "Dec">>
monthNamesFull ==
    <<"January", "February", "March", "April", "May", "June", "July", "August",
      "September", "October", "November", "December">>

\* the month-name forms for day d1, month p2 and year p3
NamedVariants(d1, mn, mnFull, p3) ==
    {d1 \o ". " \o mn \o " " \o p3,
     d1 \o ". " \o mn \o ". " \o p3,
     d1 \o " " \o mn \o " " \o p3,
     d1 \o ". " \o mnFull \o " " \o p3,
     d1 \o " " \o mnFull \o " " \o p3,
     mn \o " " \o d1 \o ", " \o p3,
     mn \o " " \o d1 \o " " \o p3,
     mn \o ". " \o d1 \o ", " \o p3,
     mn \o ". " \o d1 \o " " \o p3,
     mnFull \o " " \o d1 \o ", " \o p3,
     mnFull \o " " \o d1 \o " " \o p3,
     mnFull \o " " \o d1 \o ". " \o p3}
Named(d1, m, p3) ==
    IF m >= 1 /\ m <= 12 THEN NamedVariants(d1, monthNames[m], monthNamesFull[m], p3) ELSE {}

\* the variants of a date of three parts; d1, d2, d3 are the parts padded
Variants(dstr, p1, p2, p3, d1, d2, d3) ==
    IF Len(p1) = 4
    THEN {p1 \o "." \o d2 \o "." \o d3,
          p1 \o "-" \o d2 \o "-" \o d3,
          p3 \o "." \o p2 \o "." \o p1,
          p2 \o "." \o p3 \o "." \o p1}
    ELSE IF Len(p3) = 4
    THEN {d1 \o "." \o d2 \o "." \o p3,
          d2 \o "." \o d1 \o "." \o p3,
          d1 \o "/" \o d2 \o "/" \o p3,
          d2 \o "/" \o d1 \o "/" \o p3,
          p3 \o "-" \o d2 \o "-" \o d1,
          p3 \o "." \o p2 \o "." \o p1} \cup Named(d1, parseInt(p2), p3)
    ELSE {dstr}

LowerAll(V) == {toLowerCase(v) : v \in V}

VariantsOfParts(dstr, parts) ==
    IF Len(parts) # 3 THEN {toLowerCase(dstr)}
    ELSE LowerAll(Variants(dstr, parts[1], parts[2], parts[3],
                           padStart2(parts[1]), padStart2(parts[2]), padStart2(parts[3])))

TrimAllStr(raw) == Eager([i \in 1..Len(raw) |-> Str(trim(raw[i]))])

buildDateVariants(dstr) ==
    IF dstr = Null \/ dstr = "" THEN {}
    ELSE VariantsOfParts(dstr, TrimAllStr(SplitOn(Chars(dstr), {".", "-", "/"})))

-----------------------------------------------------------------------------
(* ReceiptMatcher: the matching loop of /combine *)

\* new RegExp('(^|[^0-9])' + esc(v) + '($|[^0-9])').test(ft); esc makes v a literal
dateRe(v) == Cat(<<Alt(<<Bol, NCls(Digit)>>), Lit(v), Alt(<<Eol, NCls(Digit)>>)>>)

\* new RegExp('(^|[^0-9\.,%])' + esc(a) + '($|[^0-9\.,%])')
amountRe(a) ==
    Cat(<<Alt(<<Bol, NCls(Digit \cup {".", ",", "%"})>>), Lit(a),
          Alt(<<Eol, NCls(Digit \cup {".", ",", "%"})>>)>>)

\* rawAmt.replace(/\./g, '').replace(/,/g, '.')
normAmt(a) == Str(Subst(Remove(Chars(a), {"."}), ",", "."))

dateVariantsOf(entry) == buildDateVariants(entry.umsatzVom) \cup buildDateVariants(entry.buchungAm)

AnyDate(V, ft) == V = {} \/ \E v \in V : Test(dateRe(v), ft)
dateMatched(entry, ft) == AnyDate(dateVariantsOf(entry), ft)

RawOrNorm(rawAmt, ft) == Test(amountRe(rawAmt), ft) \/ Test(amountRe(normAmt(rawAmt)), ft)
amountTextMatched(a, ft) == RawOrNorm(toLowerCase(a), ft)

amountMatched(entry, ft) ==
    IF entry.foreignAmountStr # Null /\ entry.foreignAmountStr # ""
    THEN amountTextMatched(entry.foreignAmountStr, ft)
    ELSE IF entry.amountStr # Null /\ entry.amountStr # ""
    THEN amountTextMatched(entry.amountStr, ft)
    ELSE TRUE

\* dateMatched && amountMatched, for a candidate whose lower-cased text is ft
textSatisfies(entry, ft) == dateMatched(entry, Chars(ft)) /\ amountMatched(entry, Chars(ft))

-----------------------------------------------------------------------------
(* The requests: statements and candidate documents *)

MaxPages == 4
MaxDocs == 2

\* the kinds of statement page: the text pdf-parse extracts from the page and
\* the page's height in 1/100 pt
PageText ==
    [Blank |-> "",
     TxnA  |-> "Karteninhaber: Erika Muster\nUmsatz vom Buchung am Fremdwährung Kurs FW Betrag in EUR\n01.01.2025 03.01.2025 AMAZON EUR 125,00-\nÜbertrag auf Rechnungsübersicht 125,00-\nZwischensaldo 125,00-\nSeite 1",
     TxnB  |-> "Fremdwährung Kurs FW Betrag in EUR\r\n05.01.2025 06.01.2025 HOTEL USD 99,90 1,0345 96,57-\n  GEBUEHR → KARTE  \n07.01.2025 07.01.2025 Manipulationsentgelt 1,50-"]
PageHeight == [Blank |-> 84189, TxnA |-> 84189, TxnB |-> 13000]
PageKinds == DOMAIN PageText

\* the kinds of candidate document: the text pdf-parse extracts, whether
\* PDFDocument.load accepts the file, and its number of pages
DocText ==
    [Amazon    |-> "Rechnung Amazon 01/01/2025 Summe 125.00 EUR Lieferung 05.01.2025 Pfand 96.57",
     AmazonBad |-> "Rechnung Amazon 01/01/2025 Summe 125.00 EUR Lieferung 05.01.2025 Pfand 96.57",
     Hotel     |-> "Hotel Invoice No 4501.01.20250 Date Jan 05, 2025 Total USD 99,90 (net 1125,00)"]
DocLoadable == [Amazon |-> TRUE, AmazonBad |-> FALSE, Hotel |-> TRUE]
DocPageCount == [Amazon |-> 2, AmazonBad |-> 1, Hotel |-> 1]
DocKinds == DOMAIN DocText

SeqsUpTo(S, n) == UNION {[1..k -> S] : k \in 0..n}
Statements == SeqsUpTo(PageKinds, MaxPages)
Pools == SeqsUpTo(DocKinds, MaxDocs)

Requests ==
    [op : {"analyze"}, hasMain : {TRUE}, main : Statements, others : {<<>>}]
    \cup [op : {"analyze", "combine"}, hasMain : {FALSE}, main : {<<>>}, others : {<<>>}]
    \cup [op : {"combine"}, hasMain : {TRUE}, main : Statements, others : Pools]
    \cup [op : {"combine"}, hasMain : {FALSE}, main : {<<>>}, others : Pools \ {<<>>}]

\* the temporary files multer stored for a request: 0 is the statement, k the
\* k-th other file
FilesOf(r) == (IF r.hasMain THEN {0} ELSE {}) \cup (1..Len(r.others))

\* PDFParse.getText of a statement: the page texts, each followed by the
\* page marker that pageSplitRegex recognises
RECURSIVE getTextFrom(_, _)
getTextFrom(st, k) ==
    IF k > Len(st) THEN ""
    ELSE PageText[st[k]] \o "\n\n-- " \o IntToStr(k) \o " of " \o IntToStr(Len(st))
            \o " --\n\n" \o getTextFrom(st, k + 1)
getText(st) == getTextFrom(st, 1)

-----------------------------------------------------------------------------
(* ReconciliationEngine: the reported pages *)

\* /Übertrag auf Rechnungsübersicht|Übertrag/i
skipRegex == Alt(<<LitI("Übertrag auf Rechnungsübersicht"), LitI("Übertrag")>>)

\* the filter on the parsed entries of a page: hay is e.rechnungstext || e.raw,
\* rt is e.rechnungstext || ''
Kept(hay, rt) ==
    /\ ~Test(skipRegex, Chars(hay))
    /\ toLowerCase(Str(trim(Chars(rt)))) # "manipulationsentgelt"
keepEntry(e) == Kept(OrElse(e.rechnungstext, e.raw), OrElse(e.rechnungstext, ""))

RECURSIVE KeptEntries(_)
KeptEntries(es) ==
    IF Len(es) = 0 THEN <<>>
    ELSE (IF keepEntry(Head(es)) THEN <<Head(es)>> ELSE <<>>) \o KeptEntries(Tail(es))

\* the mutant: only the first page is skipped
skipFirstPages_One(pp) == SubSeq(pp, 2, Len(pp))

\* perPage.slice(2)
skipFirstPages(pp) == SubSeq(pp, 3, Len(pp))

\* `reported` of /analyze, from the pages after the skipped ones
ReportOf(ps) ==
    Eager([i \in 1..Len(ps) |->
        [page |-> ps[i].page, name |-> ps[i].name,
         entries |-> KeptEntries(Eager([j \in 1..Len(ps[i].lines) |->
                                           parseLineToEntry(ps[i].lines[j])]))]])
reportedOf(pp) == ReportOf(skipFirstPages(pp))

\* `reported` of /combine
ReportOf_combine(ps) ==
    Eager([i \in 1..Len(ps) |->
        [page |-> ps[i].page, name |-> ps[i].name,
         entries |-> KeptEntries(Eager([j \in 1..Len(ps[i].lines) |->
                                           parseLineToEntry_combine(ps[i].lines[j])]))]])
reportedOf_combine(pp) == ReportOf_combine(skipFirstPages(pp))

\* the analysis of every statement of the model, computed once
perPageOf == Memo([st \in Statements |-> extractPerPageBlocks(getText(st))])
analyzeReportOf == Memo([st \in Statements |-> reportedOf(perPageOf[st])])
combineReportOf == Memo([st \in Statements |-> reportedOf_combine(perPageOf[st])])

\* the entries /combine can meet, and whether a text satisfies an entry's
\* date and amount criteria, computed once
EntriesOf(rep) == UNION {{rep[i].entries[j] : j \in 1..Len(rep[i].entries)} : i \in 1..Len(rep)}
EntriesOfAll(table) == UNION {EntriesOf(table[st]) : st \in DOMAIN table}
CombineEntries == EntriesOfAll(combineReportOf)
textMatches ==
    Memo([e \in CombineEntries, d \in DocKinds |->
        textSatisfies(e, toLowerCase(toLowerCase(DocText[d])))])

\* the mutant: a candidate that was already selected stays eligible
CandidateMatches_IgnoreUsed(entry, u) == textMatches[entry, u.kind]

\* a candidate is eligible for the entry: the `continue` on u.used and the
\* final test of the loop body (u.text is the lower-cased text of u.kind)
CandidateMatches(entry, u) == ~u.used /\ textMatches[entry, u.kind]

\* the mutant: the last eligible candidate is selected
FindMatch_Last(entry, pool) == MaxOr0({k \in 1..Len(pool) : CandidateMatches(entry, pool[k])})

\* the index in `uploaded` of the candidate the loop selects (0: matched = null)
FindMatch(entry, pool) == MinOr0({k \in 1..Len(pool) : CandidateMatches(entry, pool[k])})

-----------------------------------------------------------------------------
(* The pages /combine inserts for an entry *)

\* the characters Helvetica's WinAnsi encoding has not: drawText throws on them
NotWinAnsi == {"→"}
CanEncode(str) == \A i \in 1..Len(str) : SubSeq(str, i, i) \notin NotWinAnsi

Page(kind, src, owner, cand, drawn) ==
    [kind |-> kind, src |-> src, owner |-> owner, cand |-> cand, drawn |-> drawn]

\* the mutant: a load failure is not caught
attachMatched_NoCatch(k, kind, owner) ==
    IF DocLoadable[kind]
    THEN [pages |-> Eager([j \in 1..DocPageCount[kind] |-> Page("doc", j, owner, k, <<>>)]),
          thrown |-> FALSE, loadFailed |-> FALSE]
    ELSE [pages |-> <<>>, thrown |-> TRUE, loadFailed |-> TRUE]

\* the matched branch: every page of the candidate, or the failure notice
\* when PDFDocument.load throws
attachMatched(k, kind, owner) ==
    IF DocLoadable[kind]
    THEN [pages |-> Eager([j \in 1..DocPageCount[kind] |-> Page("doc", j, owner, k, <<>>)]),
          thrown |-> FALSE, loadFailed |-> FALSE]
    ELSE [pages |-> <<Page("notice", 0, owner, k, <<"(failed to attach matched PDF)">>)>>,
          thrown |-> FALSE, loadFailed |-> TRUE]

OrEmpty(x) == IF x = Null THEN "" ELSE x

\* the lines of a placeholder
placeholderLines(entry) ==
    <<"Umsatz vom: " \o OrEmpty(entry.umsatzVom),
      "Buchung am: " \o OrEmpty(entry.buchungAm),
      "Rechnungstext: " \o OrEmpty(entry.rechnungstext)>>
    \o (IF entry.foreignCurrency # Null /\ entry.foreignCurrency # ""
        THEN <<"Foreign: " \o entry.foreignCurrency \o " " \o OrEmpty(entry.foreignAmountStr)
                  \o " @ " \o OrEmpty(entry.fxRateStr) \o " " \o OrEmpty(entry.foreignSign)>>
        ELSE <<>>)
    \o <<"Amount: " \o OrEmpty(entry.amountStr) \o " " \o OrEmpty(entry.sign),
         "--- Raw ---",
         entry.raw>>

maxChars == 90
fontSize == 1200
margin == 5000
lineGap == 600

\* ln.slice(pos, pos + maxChars) for pos = 0, maxChars, ...
RECURSIVE Chunks(_)
Chunks(ln) ==
    IF Len(ln) <= maxChars THEN <<ln>>
    ELSE <<SubSeq(ln, 1, maxChars)>> \o Chunks(SubSeq(ln, maxChars + 1, Len(ln)))

RECURSIVE wrapLines(_)
wrapLines(lines) ==
    IF Len(lines) = 0 THEN <<>>
    ELSE (IF Head(lines) = "" THEN <<>> ELSE Chunks(Head(lines))) \o wrapLines(Tail(lines))

\* the drawing loop over the wrapped lines from line k on: pages is the
\* placeholder's pages so far (pages[1] is newPage), each the sequence of
\* <<line number, y>> drawn on it
RECURSIVE drawWrapped(_, _, _, _, _)
drawWrapped(wrapped, k, cursorY, height, pages) ==
    IF k > Len(wrapped) THEN [pages |-> pages, thrown |-> FALSE]
    ELSE IF cursorY < margin + fontSize
    THEN \* a new page: the line is drawn on it
         IF CanEncode(wrapped[k])
         THEN drawWrapped(wrapped, k + 1, (height - margin) - (fontSize + lineGap), height,
                          Append(pages, <<<<k, height - margin>>>>))
         ELSE [pages |-> Append(pages, <<>>), thrown |-> TRUE]
    ELSE \* the line is drawn on newPage
         IF CanEncode(wrapped[k])
         THEN drawWrapped(wrapped, k + 1, cursorY - (fontSize + lineGap), height,
                          [pages EXCEPT ![1] = Append(@, <<k, cursorY>>)])
         ELSE [pages |-> pages, thrown |-> TRUE]

\* the unmatched branch: the placeholder page(s) of an entry on a page of the
\* given height; thrown, drawText threw and the descriptor was not recorded
Placeholder(d, owner) ==
    [pages |-> Eager([j \in 1..Len(d.pages) |-> Page("placeholder", j, owner, 0, d.pages[j])]),
     thrown |-> d.thrown, loadFailed |-> FALSE]
placeholderFor(entry, owner, height) ==
    Placeholder(drawWrapped(wrapLines(placeholderLines(entry)), 1, height - margin, height, <<<<>>>>),
                owner)


-----------------------------------------------------------------------------
(* The request handlers *)

\* no line is being parsed
NoEntry == [raw |-> Null]
ParseIdle == pline = "" /\ viaAnalyze = NoEntry /\ viaCombine = NoEntry
parseVars == <<pline, viaAnalyze, viaCombine>>

NoResp == [status |-> 0, detectedPages |-> 0, reportedPages |-> 0]
Resp(status) == [status |-> status, detectedPages |-> 0, reportedPages |-> 0]

Init ==
    /\ pc = "recv"
    /\ req \in Requests
    /\ tmpFiles = FilesOf(req)
    /\ unlinked = {}
    /\ resp = NoResp
    /\ perPage = <<>>
    /\ reported = <<>>
    /\ uploaded = <<>>
    /\ merged = <<>>
    /\ mergedPageCount = 0
    /\ missingPlaceholders = <<>>
    /\ pi = 0
    /\ ei = 0
    /\ outcomes = <<>>
    /\ faults = {}
    /\ nin = ""
    /\ nout = NaNum
    /\ nre = NaNum
    /\ ParseIdle

normVars == <<nin, nout, nre, parseVars>>
combineVars == <<uploaded, merged, mergedPageCount, missingPlaceholders, pi, ei, outcomes>>

\* try { fs.unlinkSync(f) } catch (e) {} for every file of fs: each is
\* unlinked unless unlinkSync throws
Cleanup(fs) ==
    /\ unlinked' = unlinked \cup fs
    /\ \E failed \in SUBSET (fs \cap tmpFiles) : tmpFiles' = (tmpFiles \ fs) \cup failed

\* app.post('/analyze'): no file
AnalyzeNoFile ==
    /\ pc = "recv" /\ req.op = "analyze" /\ ~req.hasMain
    /\ resp' = Resp(400)
    /\ pc' = "done"
    /\ UNCHANGED <<req, tmpFiles, unlinked, perPage, reported, faults, combineVars, normVars>>

\* app.post('/analyze'): reading the file or extracting its text throws
AnalyzeFails ==
    /\ pc = "recv" /\ req.op = "analyze" /\ req.hasMain
    /\ faults' = faults \cup {"getText"}
    /\ resp' = Resp(500)
    /\ pc' = "done"
    /\ UNCHANGED <<req, tmpFiles, unlinked, perPage, reported, combineVars, normVars>>

\* app.post('/analyze'): the report
AnalyzeReports ==
    /\ pc = "recv" /\ req.op = "analyze" /\ req.hasMain
    /\ perPage' = perPageOf[req.main]
    /\ reported' = analyzeReportOf[req.main]
    /\ Cleanup({0})
    /\ resp' = [status |-> 200, detectedPages |-> Len(perPage'), reportedPages |-> Len(reported')]
    /\ pc' = "done"
    /\ UNCHANGED <<req, faults, combineVars, normVars>>

\* app.post('/combine'): no file with field name 'main'
CombineNoMain ==
    /\ pc = "recv" /\ req.op = "combine" /\ ~req.hasMain
    /\ resp' = Resp(400)
    /\ pc' = "done"
    /\ UNCHANGED <<req, tmpFiles, unlinked, perPage, reported, faults, combineVars, normVars>>

\* app.post('/combine'): reading or loading the statement throws, which the
\* outer catch answers
CombineLoadFails ==
    /\ pc = "recv" /\ req.op = "combine" /\ req.hasMain
    /\ faults' = faults \cup {"loadMain"}
    /\ resp' = Resp(500)
    /\ pc' = "done"
    /\ UNCHANGED <<req, tmpFiles, unlinked, perPage, reported, combineVars, normVars>>

\* app.post('/combine'): the statement is loaded
CombineLoads ==
    /\ pc = "recv" /\ req.op = "combine" /\ req.hasMain
    /\ pc' = "analysis"
    /\ UNCHANGED <<req, tmpFiles, unlinked, resp, perPage, reported, faults, combineVars, normVars>>

\* the text extraction of the statement throws: the inner catch logs it
CombineTextFails ==
    /\ pc = "analysis"
    /\ faults' = faults \cup {"getText"}
    /\ pc' = "save"
    /\ UNCHANGED <<req, tmpFiles, unlinked, resp, perPage, reported, combineVars, normVars>>

\* the candidate pool: one element per other file, text lower-cased, unused
preload(others) ==
    Eager([k \in 1..Len(others) |->
        [file |-> k, kind |-> others[k], text |-> toLowerCase(DocText[others[k]]), used |-> FALSE]])

\* the statement is analysed and the other files are preloaded
CombineAnalyzes ==
    /\ pc = "analysis"
    /\ perPage' = perPageOf[req.main]
    /\ reported' = combineReportOf[req.main]
    /\ uploaded' = preload(req.others)
    /\ pi' = 0
    /\ ei' = 0
    /\ pc' = "page"
    /\ UNCHANGED <<req, tmpFiles, unlinked, resp, faults, merged, mergedPageCount,
                   missingPlaceholders, outcomes, normVars>>

\* reported.find(r => r.page === n), as the sequence of its results (none or one)
AtOrNone(rep, i) == IF i = 0 THEN <<>> ELSE <<rep[i]>>
pageReportOf(rep, n) == AtOrNone(rep, MinOr0({i \in 1..Len(rep) : rep[i].page = n}))

\* the page has entries to go through
HasEntries(pr) == Len(pr) # 0 /\ Len(pr[1].entries) # 0

\* the page loop: original page i is copied; its entries follow
CombinePage ==
    /\ pc = "page"
    /\ pi < Len(req.main)
    /\ merged' = Append(merged, Page("orig", pi + 1, <<>>, 0, <<>>))
    /\ mergedPageCount' = mergedPageCount + 1
    /\ IF HasEntries(pageReportOf(reported, pi + 1))
       THEN pi' = pi /\ pc' = "entry"
       ELSE pi' = pi + 1 /\ pc' = "page"
    /\ ei' = 0
    /\ UNCHANGED <<req, tmpFiles, unlinked, resp, perPage, reported, faults, uploaded,
                   missingPlaceholders, outcomes, normVars>>

\* the page loop is over
CombinePagesDone ==
    /\ pc = "page"
    /\ pi >= Len(req.main)
    /\ pc' = "save"
    /\ UNCHANGED <<req, tmpFiles, unlinked, resp, perPage, reported, faults, combineVars, normVars>>

\* a counter that counts one for every inserted page, whatever their number
countPages_One(count, pages) == count + 1

\* mergedPageCount += copied.length, and += 1 with every page added singly
countPages(count, pages) == count + Len(pages)

\* the end of the entry loop's body: ins is what the entry inserts, k the
\* selected candidate (0: none)
Inserted(pageReport, entry, k, ins) ==
    /\ uploaded' = IF k # 0 THEN [uploaded EXCEPT ![k].used = TRUE] ELSE uploaded
    /\ outcomes' = Append(outcomes,
           [page |-> pageReport.page, idx |-> ei + 1, entry |-> entry, cand |-> k,
            usedBefore |-> {j \in 1..Len(uploaded) : uploaded[j].used}])
    /\ merged' = merged \o ins.pages
    /\ mergedPageCount' = countPages(mergedPageCount, ins.pages)
    /\ missingPlaceholders' =
           IF k = 0 /\ ~ins.thrown
           THEN Append(missingPlaceholders,
                    [pages |-> Eager([j \in 1..Len(ins.pages) |-> mergedPageCount + j]),
                     expected |-> [originalPage |-> pageReport.page,
                                   owner |-> pageReport.name, entry |-> entry]])
           ELSE missingPlaceholders
    /\ faults' = faults \cup (IF ins.loadFailed THEN {"loadCandidate"} ELSE {})
                        \cup (IF ins.thrown /\ k = 0 THEN {"drawText"} ELSE {})
    /\ IF ins.thrown THEN pc' = "save" /\ pi' = pi /\ ei' = ei
       ELSE IF ei + 1 < Len(pageReport.entries)
       THEN pc' = "entry" /\ pi' = pi /\ ei' = ei + 1
       ELSE pc' = "page" /\ pi' = pi + 1 /\ ei' = 0

\* the matched document or its failure notice when a candidate was selected,
\* the placeholder otherwise
Matched(pageReport, entry, owner, k) ==
    Inserted(pageReport, entry, k,
             IF k # 0 THEN attachMatched(k, uploaded[k].kind, owner)
             ELSE placeholderFor(entry, owner, PageHeight[req.main[pi + 1]]))

EntryOfPage(pageReport, entry) ==
    Matched(pageReport, entry, <<pageReport.page, ei + 1>>, FindMatch(entry, uploaded))

\* the body of the entry loop for the next entry of page i: the matching
\* loop, then the matched document, the failure notice or the placeholder
EntryBody(pageReport) == EntryOfPage(pageReport, pageReport.entries[ei + 1])

CombineEntry ==
    /\ pc = "entry"
    /\ EntryBody(pageReportOf(reported, pi + 1)[1])
    /\ UNCHANGED <<req, tmpFiles, unlinked, resp, perPage, reported, normVars>>

\* mergedPdf.save(), the cleanup of every uploaded file, the response
CombineSave ==
    /\ pc = "save"
    /\ Cleanup(FilesOf(req))
    /\ resp' = Resp(200)
    /\ pc' = "done"
    /\ UNCHANGED <<req, perPage, reported, faults, combineVars, normVars>>

Next ==
    \/ AnalyzeNoFile
    \/ AnalyzeFails
    \/ AnalyzeReports
    \/ CombineNoMain
    \/ CombineLoadFails
    \/ CombineLoads
    \/ CombineTextFails
    \/ CombineAnalyzes
    \/ CombinePage
    \/ CombinePagesDone
    \/ CombineEntry
    \/ CombineSave

Spec == Init /\ [][Next]_vars

-----------------------------------------------------------------------------
(* The output of a /combine run, as the properties below read it *)

\* a /combine request was answered with the merged PDF
CombineSucceeded == pc = "done" /\ req.op = "combine" /\ resp.status = 200

\* the source page numbers of the copied statement pages of the output, in order
OriginalPagesOut ==
    LET q == SelectSeq(merged, LAMBDA p : p.kind = "orig")
    IN  Eager([i \in 1..Len(q) |-> q[i].src])

\* the position in the output of the copy of statement page n (0: none)
PosOfOrig(n) ==
    LET S == {i \in 1..Len(merged) : merged[i].kind = "orig" /\ merged[i].src = n}
    IN  IF S = {} THEN 0 ELSE Min(S)

\* the positions in the output of the pages inserted for an entry
PosOfOwner(owner) == {i \in 1..Len(merged) : merged[i].owner = owner}

\* the statement pages that carry text, in order: the k-th of them is the
\* page the k-th page block was segmented from
RECURSIVE TextPagesFrom(_, _)
TextPagesFrom(st, k) ==
    IF k > Len(st) THEN <<>>
    ELSE (IF Len(trim(Chars(PageText[st[k]]))) > 0 THEN <<k>> ELSE <<>>) \o TextPagesFrom(st, k + 1)
TextPages(st) == TextPagesFrom(st, 1)

\* the number of entries of the reported pages
RECURSIVE EntryCount(_)
EntryCount(rep) == IF Len(rep) = 0 THEN 0 ELSE Len(Head(rep).entries) + EntryCount(Tail(rep))

\* v occurs in ft with no character of Bad right before or right after it
Occurs(v, ft, Bad) ==
    \E i \in 1..(Len(ft) - Len(v) + 1) :
        /\ SubSeq(ft, i, i + Len(v) - 1) = v
        /\ i = 1 \/ SubSeq(ft, i - 1, i - 1) \notin Bad
        /\ i + Len(v) > Len(ft) \/ SubSeq(ft, i + Len(v), i + Len(v)) \notin Bad

\* the statement's date criterion: the entry has no date, or one of the
\* variants of its dates occurs between non-digits
DateCriterion(entry, ft) ==
    LET V == UNION {buildDateVariants(d) : d \in {entry.umsatzVom, entry.buchungAm} \ {Null, ""}}
    IN  V = {} \/ \E v \in V : Occurs(v, ft, Digit)

\* the statement's amount criterion: the foreign amount if the entry has one,
\* otherwise the primary amount, as written or with '.' for the decimal comma,
\* occurs between characters that are no digit, separator or percent sign;
\* an entry with neither amount satisfies it
AmountCriterion(entry, ft) ==
    LET a == IF entry.foreignAmountStr \notin {Null, ""} THEN entry.foreignAmountStr
             ELSE entry.amountStr
        Bad == Digit \cup {".", ",", "%"}
    IN  a \in {Null, ""} \/ Occurs(a, ft, Bad) \/ Occurs(normAmt(a), ft, Bad)

\* both criteria, for every entry and every kind of candidate of the model
Satisfies ==
    Memo([e \in CombineEntries, d \in DocKinds |->
        DateCriterion(e, toLowerCase(DocText[d])) /\ AmountCriterion(e, toLowerCase(DocText[d]))])

-----------------------------------------------------------------------------
(* The claims about /analyze and /combine *)

\* C1: in one /combine run no candidate is selected for two entries: a
\* selected candidate has its used flag set and no later entry selects it, and
\* of the entries that match the only candidate of a pool the first is matched
\* and the others are unmatched
C1_NoDoubleUse ==
    /\ \A a, b \in 1..Len(outcomes) :
           (a < b /\ outcomes[a].cand # 0) =>
               /\ outcomes[b].cand # outcomes[a].cand
               /\ outcomes[a].cand \in outcomes[b].usedBefore
    /\ \A a \in 1..Len(outcomes) : outcomes[a].cand # 0 => uploaded[outcomes[a].cand].used
    /\ Len(uploaded) = 1 =>
           LET M == {n \in 1..Len(outcomes) : Satisfies[outcomes[n].entry, uploaded[1].kind]}
           IN  \A n \in M : outcomes[n].cand = IF n = Min(M) THEN 1 ELSE 0

\* two entries match the only candidate: the first got it, the second is unmatched
C1_Witness ==
    /\ Len(uploaded) = 1
    /\ \E a, b \in 1..Len(outcomes) :
           /\ a < b
           /\ Satisfies[outcomes[a].entry, uploaded[1].kind]
           /\ Satisfies[outcomes[b].entry, uploaded[1].kind]
           /\ outcomes[a].cand = 1
           /\ outcomes[b].cand = 0

\* C2: for every entry the matcher selects the first candidate, in pool order,
\* that was unused and satisfies the date criterion and the amount criterion;
\* the entry is unmatched exactly when no unused candidate satisfies both
C2_FirstUnusedSatisfying ==
    \A n \in 1..Len(outcomes) :
        LET o == outcomes[n]
            E == {k \in 1..Len(uploaded) :
                     k \notin o.usedBefore /\ Satisfies[o.entry, uploaded[k].kind]}
        IN  /\ o.cand = IF E = {} THEN 0 ELSE Min(E)
            /\ o.cand = 0 <=> E = {}

\* the second candidate was selected although the first was unused (it fails
\* a criterion), and another entry, with candidates left unused, is unmatched
C2_Witness ==
    /\ \E n \in 1..Len(outcomes) : outcomes[n].cand = 2 /\ 1 \notin outcomes[n].usedBefore
    /\ \E n \in 1..Len(outcomes) :
           outcomes[n].cand = 0 /\ outcomes[n].usedBefore # 1..Len(uploaded)

\* C3: whenever /combine answers with the merged PDF, the PDF contains every
\* page of the statement, in the statement's order, whatever happened during
\* analysis, matching and insertion
C3_AllOriginalPages ==
    CombineSucceeded => OriginalPagesOut = Eager([i \in 1..Len(req.main) |-> i])

\* C4: in the output of a /combine run in which nothing failed, every entry
\* of every reported page has exactly one insertion, which follows the copy of
\* the statement page the entry was read from and precedes the copy of the
\* next statement page; it is the whole matched document or the entry's
\* placeholder page(s), and the insertions of a page are in the entries' order
C4_InsertionAfterOwnPage ==
    (CombineSucceeded /\ faults = {}) =>
        \A r \in 1..Len(reported) : \A j \in 1..Len(reported[r].entries) :
            LET own == TextPages(req.main)[reported[r].page]
                S == PosOfOwner(<<reported[r].page, j>>)
                next == IF own < Len(req.main) THEN PosOfOrig(own + 1) ELSE Len(merged) + 1
            IN  /\ S # {}
                /\ S = Min(S)..Max(S)
                /\ \/ \A i \in S : merged[i].kind = "placeholder"
                   \/ /\ \A i \in S : merged[i].kind = "doc" /\ merged[i].src = i - Min(S) + 1
                      /\ Cardinality(S) = DocPageCount[uploaded[merged[Min(S)].cand].kind]
                /\ PosOfOrig(own) # 0 /\ PosOfOrig(own) < Min(S)
                /\ Max(S) < next
                /\ j > 1 => \A i \in PosOfOwner(<<reported[r].page, j - 1>>) : i < Min(S)

\* C5: when /analyze or /combine has sent its response, of whatever status,
\* the deletion of every temporary file of the request has been attempted
C5_FilesDeleted == pc = "done" => FilesOf(req) \subseteq unlinked

\* C6: a /combine run in which the text extraction of the statement or the
\* assembly of the output threw is answered with an error, not with a PDF
C6_ExceptionSurfaced ==
    (pc = "done" /\ req.op = "combine" /\ faults \cap {"getText", "drawText"} # {}) =>
        resp.status = 500

\* C7: when the matched candidate of an entry cannot be loaded, exactly one
\* page, the failure notice, is inserted for the entry; the failure does not
\* end the page loop, and a run in which nothing else failed handles every
\* entry of the reported pages, copies every statement page and answers with
\* the merged PDF
C7_LoadFailureTolerated ==
    /\ \A n \in 1..Len(outcomes) :
           (outcomes[n].cand # 0 /\ ~DocLoadable[uploaded[outcomes[n].cand].kind]) =>
               LET S == PosOfOwner(<<outcomes[n].page, outcomes[n].idx>>)
               IN  Cardinality(S) = 1 /\ \A i \in S : merged[i].kind = "notice"
    /\ (pc = "save" /\ faults \subseteq {"loadCandidate"}) => pi = Len(req.main)
    /\ (pc = "done" /\ req.op = "combine" /\ req.hasMain /\ faults = {"loadCandidate"}) =>
           /\ resp.status = 200
           /\ OriginalPagesOut = Eager([i \in 1..Len(req.main) |-> i])
           /\ Len(outcomes) = EntryCount(reported)

\* a candidate failed to load, its notice is followed by further pages, a
\* later entry was handled and the run succeeded
C7_Witness ==
    /\ CombineSucceeded
    /\ \E i \in 1..Len(merged) : merged[i].kind = "notice" /\ i < Len(merged)
    /\ \E n \in 1..Len(outcomes) :
           /\ outcomes[n].cand # 0
           /\ ~DocLoadable[uploaded[outcomes[n].cand].kind]
           /\ n < Len(outcomes)

\* C8: after a /combine run missingPlaceholders has one descriptor for every
\* unmatched entry, in order, and none for a matched entry; the descriptor's
\* originalPage and owner are the page number and the holder of the page
\* block of the entry
C8_DescriptorPerUnmatched ==
    CombineSucceeded =>
        LET un == SelectSeq(outcomes, LAMBDA o : o.cand = 0)
        IN  /\ Len(missingPlaceholders) = Len(un)
            /\ \A n \in 1..Len(un) :
                   /\ n <= Len(missingPlaceholders)
                   /\ missingPlaceholders[n].expected.entry = un[n].entry
                   /\ missingPlaceholders[n].expected.originalPage = un[n].page
                   /\ missingPlaceholders[n].expected.owner = perPage[un[n].page].name

\* C9: the first two page blocks of a statement are not reported, by /analyze
\* and by /combine: the reported pages are the blocks from the third on, their
\* entries are lines of those blocks, reportedPages is max(0, detectedPages - 2),
\* and no entry of the first two blocks is matched or given a placeholder
C9_FirstTwoPagesSkipped ==
    /\ Len(reported) = Max({0, Len(perPage) - 2})
    /\ \A i \in 1..Len(reported) :
           /\ reported[i].page = i + 2
           /\ reported[i].page = perPage[i + 2].page
           /\ reported[i].name = perPage[i + 2].name
           /\ \A j \in 1..Len(reported[i].entries) :
                  \E l \in 1..Len(perPage[i + 2].lines) :
                      reported[i].entries[j].raw = perPage[i + 2].lines[l]
    /\ (pc = "done" /\ req.op = "analyze" /\ resp.status = 200) =>
           /\ resp.detectedPages = Len(perPage)
           /\ resp.reportedPages = Max({0, resp.detectedPages - 2})
    /\ \A n \in 1..Len(outcomes) : outcomes[n].page >= 3
    /\ \A i \in 1..Len(merged) : merged[i].kind # "orig" => merged[i].owner[1] >= 3
    /\ \A n \in 1..Len(missingPlaceholders) : missingPlaceholders[n].expected.originalPage >= 3

\* /analyze of a statement of four page blocks, the first of which has
\* transaction lines, reports two pages
C9_Witness ==
    /\ pc = "done" /\ req.op = "analyze" /\ resp.status = 200
    /\ resp.detectedPages = 4 /\ resp.reportedPages = 2
    /\ Len(perPage[1].lines) > 0 /\ Len(perPage[2].lines) > 0
    /\ Len(reported[1].entries) > 0

\* the entry a page of the output was inserted for
EntryOfOwner(owner) == pageReportOf(reported, owner[1])[1].entries[owner[2]]

\* the pages list ps of a descriptor names placeholder pages of the output
\* that were inserted for one entry, the descriptor's, in consecutive positions
DescriptorPagesOk(ps, expected) ==
    /\ Len(ps) > 0
    /\ \A j \in 1..Len(ps) :
           /\ ps[j] \in 1..Len(merged)
           /\ merged[ps[j]].kind = "placeholder"
           /\ merged[ps[j]].owner = merged[ps[1]].owner
           /\ merged[ps[j]].owner[1] = expected.originalPage
           /\ EntryOfOwner(merged[ps[j]].owner) = expected.entry
    /\ \A j \in 1..(Len(ps) - 1) : ps[j + 1] = ps[j] + 1

\* C12: throughout the assembly the merged-page counter equals the number of
\* pages added to the output so far, and every page number in a placeholder
\* descriptor's pages list is the 1-based position in the output of a
\* placeholder page of that entry, the numbers of a list being ascending and
\* consecutive.
C12_CounterIsPageCount ==
    /\ mergedPageCount = Len(merged)
    /\ \A d \in 1..Len(missingPlaceholders) :
           DescriptorPagesOk(missingPlaceholders[d].pages, missingPlaceholders[d].expected)

\* C12 witness: a /combine run has answered 200 after inserting a matched
\* document of two pages and, after it, a placeholder that overflowed onto
\* further pages and whose descriptor lists them.
C12_Witness ==
    /\ pc = "done" /\ resp.status = 200
    /\ \E d \in 1..Len(missingPlaceholders) :
           /\ Len(missingPlaceholders[d].pages) >= 2
           /\ \E p \in 1..Len(merged) :
                  /\ p < missingPlaceholders[d].pages[1]
                  /\ merged[p].kind = "doc" /\ merged[p].src = 2

\* the drawText calls on the pages ps of a placeholder: <<j, a>> is the a-th
\* call on page ps[j]; the line it drew and the height it drew it at
Draws(ps) == UNION {{<<j, a>> : a \in 1..Len(merged[ps[j]].drawn)} : j \in 1..Len(ps)}
LineOf(ps, x) == merged[ps[x[1]]].drawn[x[2]][1]
HeightOf(ps, x) == merged[ps[x[1]]].drawn[x[2]][2]

\* each of the n wrapped lines is drawn exactly once on the pages ps
DrawnOnce(ps, n) ==
    \A k \in 1..n : Cardinality({x \in Draws(ps) : LineOf(ps, x) = k}) = 1

\* no two lines are drawn at the same height of the same page
NoOverlap(ps) ==
    \A x, y \in Draws(ps) : (x # y /\ x[1] = y[1]) => HeightOf(ps, x) # HeightOf(ps, y)

\* a line is never drawn on a page earlier than the page of a line before it
OnLatestPage(ps) ==
    \A x, y \in Draws(ps) : LineOf(ps, x) < LineOf(ps, y) => x[1] <= y[1]

\* C13: when a placeholder's wrapped text overflows one page, every wrapped
\* line is drawn exactly once, no two lines are drawn at the same vertical
\* position on the same page, and once a continuation page is started the
\* following lines are drawn on it, not on an earlier page.
C13_OverflowLayout ==
    \A d \in 1..Len(missingPlaceholders) :
        /\ DrawnOnce(missingPlaceholders[d].pages,
                     Len(wrapLines(placeholderLines(missingPlaceholders[d].expected.entry))))
        /\ NoOverlap(missingPlaceholders[d].pages)
        /\ OnLatestPage(missingPlaceholders[d].pages)

-----------------------------------------------------------------------------
(* The NumberNormalizer on its own: every supported amount string is         *)
(* normalized, and the canonical decimal string of the result normalized     *)
(* again.                                                                    *)

MaxGroups == 1

Seps == {".", ","}
Heads == {"0", "1", "12", "125"}
GroupDigits == {"234", "000"}
DecimalDigits == {"00", "56", "50"}

RECURSIVE GroupStrs(_)
GroupStrs(n) ==
    IF n = 0 THEN {""}
    ELSE GroupStrs(n - 1) \cup
         {g \o sep \o d : g \in GroupStrs(n - 1), sep \in Seps, d \in GroupDigits}

\* the amount strings: 1 to 3 digits, groups of 3 digits, optional 2 decimals,
\* with '.' and ',' in either role
AmountInputs ==
    {h \o g \o d : h \in Heads, g \in GroupStrs(MaxGroups),
                   d \in {""} \cup {sep \o dd : sep \in Seps, dd \in DecimalDigits}}

Idle ==
    /\ req = [op |-> "none", hasMain |-> FALSE, main |-> <<>>, others |-> <<>>]
    /\ tmpFiles = {}
    /\ unlinked = {}
    /\ resp = NoResp
    /\ perPage = <<>>
    /\ reported = <<>>
    /\ uploaded = <<>>
    /\ merged = <<>>
    /\ mergedPageCount = 0
    /\ missingPlaceholders = <<>>
    /\ pi = 0
    /\ ei = 0
    /\ outcomes = <<>>
    /\ faults = {}

handlerVars == <<req, tmpFiles, unlinked, resp, perPage, reported, uploaded,
                 merged, mergedPageCount, missingPlaceholders, pi, ei,
                 outcomes, faults>>

InitNorm ==
    /\ pc = "norm"
    /\ nin \in AmountInputs
    /\ nout = NaNum
    /\ nre = NaNum
    /\ ParseIdle
    /\ Idle

Normalize ==
    /\ pc = "norm"
    /\ nout' = parseGermanNumberToFloat(nin)
    /\ pc' = IF nout' = NaNum THEN "normDone" ELSE "renorm"
    /\ UNCHANGED <<nin, nre, handlerVars, parseVars>>

Renormalize ==
    /\ pc = "renorm"
    /\ nre' = parseGermanNumberToFloat(NumberToString(nout))
    /\ pc' = "normDone"
    /\ UNCHANGED <<nin, nout, handlerVars, parseVars>>

NextNorm == Normalize \/ Renormalize

SpecNorm == InitNorm /\ [][NextNorm]_vars

\* C10 as claimed: NumberNormalizer is stable, re-normalizing the canonical
\* decimal string of normalize(s) gives normalize(s) again.
C10_StableAsClaimed ==
    (pc = "normDone" /\ nout # NaNum) => nre = nout

\* C10 amended: re-normalizing the canonical decimal string gives the same
\* value exactly when normalize(s) has no fractional part; with a fractional
\* part the canonical string's '.' is removed as a grouping separator and the
\* result is the value without its decimal point.
C10_StableIffInteger ==
    (pc = "normDone" /\ nout # NaNum) =>
        /\ (nre = nout) <=> (nout.fp = "")
        /\ nre = parseFloat(Chars(nout.ip \o nout.fp))

\* C10 witness: an amount with decimals ("1.234,56") has been normalized to a
\* value with a fractional part and normalized again.
C10_Witness ==
    pc = "normDone" /\ nin = "1.234,56" /\ nout.fp = "56" /\ nre.ip = "123456"

-----------------------------------------------------------------------------
(* The EntryParser on its own: a statement line is parsed by the             *)
(* parseLineToEntry of /analyze and by the parseLineToEntry of /combine.     *)

MaxDates == 2

DateForms == {"01.01.2025", "2025-01-03", "1.8.2025"}
Descriptions == {"AMAZON", "HOTEL USD 99,90 1,0345"}
AmountTails == {"", " 125,00-", " 125,00 EUR", " -125,00 €", " 125,00 EUR €"}

\* up to n dates, each followed by a blank
RECURSIVE DatePrefixes(_)
DatePrefixes(n) ==
    IF n = 0 THEN {""}
    ELSE DatePrefixes(n - 1) \cup {d \o " " \o p : d \in DateForms, p \in DatePrefixes(n - 1)}

\* the statement lines: dates, a description with or without a foreign
\* currency block, an amount with its sign and currency in several layouts
StatementLines ==
    {p \o d \o t : p \in DatePrefixes(MaxDates), d \in Descriptions, t \in AmountTails}

InitParse ==
    /\ pc = "parse"
    /\ pline \in StatementLines
    /\ viaAnalyze = NoEntry
    /\ viaCombine = NoEntry
    /\ nin = ""
    /\ nout = NaNum
    /\ nre = NaNum
    /\ Idle

\* the line goes through the parser /analyze uses
ParseForAnalyze ==
    /\ pc = "parse"
    /\ viaAnalyze' = parseLineToEntry(pline)
    /\ pc' = "parseCombine"
    /\ UNCHANGED <<pline, viaCombine, nin, nout, nre, handlerVars>>

\* the same line goes through the parser /combine uses
ParseForCombine ==
    /\ pc = "parseCombine"
    /\ viaCombine' = parseLineToEntry_combine(pline)
    /\ pc' = "parsed"
    /\ UNCHANGED <<pline, viaAnalyze, nin, nout, nre, handlerVars>>

NextParse == ParseForAnalyze \/ ParseForCombine

SpecParse == InitParse /\ [][NextParse]_vars

\* C11: for the same statement line, the entry the Analyze workflow produces
\* and the entry the Combine workflow produces are identical in every field.
C11_SameEntry ==
    pc = "parsed" => viaAnalyze = viaCombine

=============================================================================
